---- MODULE Spec2Model ----
(***************************************************************************)
(* A model of lyrics_adder.py: the lyric-text normalizer (clean_lyrics),   *)
(* the resolver (get_raw_lyrics), the per-file job (add_lyrics_to_file)    *)
(* and the dispatcher (process_path).                                      *)
(*                                                                         *)
(* Text that the code inspects character by character (raw lyrics, file    *)
(* names) is a sequence of one-character strings.  Text that the code only *)
(* tests for emptiness and passes on (titles, artists) is a TLA+ string.   *)
(***************************************************************************)
EXTENDS Integers, Sequences, FiniteSets, TLC

(***************************************************************************)
(* Characters and the str methods used by the code.                        *)
(***************************************************************************)
LowerLetters == <<"a","b","c","d","e","f","g","h","i","j","k","l","m",
                  "n","o","p","q","r","s","t","u","v","w","x","y","z">>

UpperLetters == <<"A","B","C","D","E","F","G","H","I","J","K","L","M",
                  "N","O","P","Q","R","S","T","U","V","W","X","Y","Z">>

Digits == {"0","1","2","3","4","5","6","7","8","9"}

\* [a-z] under (?i)
IsAlpha(c) == \E i \in 1..26 : c = LowerLetters[i] \/ c = UpperLetters[i]

\* \w ; its complement is \W
IsWordChar(c) == IsAlpha(c) \/ c \in Digits \/ c = "_"

\* what str.strip() removes
IsSpace(c) == c \in {" ", "\t", "\n", "\r"}

LowerChar(c) ==
  IF \E i \in 1..26 : c = UpperLetters[i]
  THEN LowerLetters[CHOOSE i \in 1..26 : c = UpperLetters[i]]
  ELSE c

\* str.lower()
Lower(s) == [i \in 1..Len(s) |-> LowerChar(s[i])]

\* str.strip()
Strip(s) ==
  LET keep == {i \in 1..Len(s) : ~IsSpace(s[i])}
  IN IF keep = {} THEN <<>>
     ELSE LET lo == CHOOSE i \in keep : \A j \in keep : i <= j
              hi == CHOOSE i \in keep : \A j \in keep : j <= i
          IN SubSeq(s, lo, hi)

\* pat occurs in s at position i
MatchAt(s, pat, i) ==
  /\ i >= 1
  /\ i + Len(pat) - 1 <= Len(s)
  /\ \A k \in 1..Len(pat) : s[i + k - 1] = pat[k]

\* str.find(), 1-based, 0 when pat does not occur
Find(s, pat) ==
  LET hits == {i \in 1..Len(s) : MatchAt(s, pat, i)}
  IN IF hits = {} THEN 0 ELSE CHOOSE i \in hits : \A j \in hits : i <= j

\* pat in s
Contains(s, pat) == Find(s, pat) > 0

\* str.startswith()
StartsWith(s, pat) == MatchAt(s, pat, 1)

\* str.endswith()
EndsWith(s, pat) == Len(pat) <= Len(s) /\ MatchAt(s, pat, Len(s) - Len(pat) + 1)

\* str.splitlines(): no empty last line after a final line break
RECURSIVE SplitLines(_)
SplitLines(s) ==
  IF s = <<>> THEN <<>>
  ELSE LET i == Find(s, <<"\n">>)
       IN IF i = 0 THEN <<s>>
          ELSE <<SubSeq(s, 1, i - 1)>> \o SplitLines(SubSeq(s, i + 1, Len(s)))

\* "\n".join()
RECURSIVE JoinLines(_)
JoinLines(ls) ==
  IF ls = <<>> THEN <<>>
  ELSE IF Len(ls) = 1 THEN ls[1]
  ELSE ls[1] \o <<"\n">> \o JoinLines(Tail(ls))

(***************************************************************************)
(* clean_lyrics                                                            *)
(***************************************************************************)
Bar2 == <<"|","|">>

TagContributors == <<"c","o","n","t","r","i","b","u","t","o","r","s">>

TagTranslations == <<"t","r","a","n","s","l","a","t","i","o","n","s">>

TagParoles == <<"p","a","r","o","l","e","s"," ","d","e"," ","l","a"," ",
                "c","h","a","n","s","o","n">>

MarkerAlsoLike == <<"y","o","u"," ","m","i","g","h","t"," ","a","l","s","o",
                    " ","l","i","k","e">>

\* re.fullmatch(r"(?i)[a-z]{2,3}", p)
FullMatchLang(p) == Len(p) \in {2, 3} /\ \A i \in 1..Len(p) : IsAlpha(p[i])

\* line.split("||", 1) and the replacement of line by rest.strip()
SplitPrefix(line) ==
  IF Contains(line, Bar2)
  THEN LET i == Find(line, Bar2)
           prefix == SubSeq(line, 1, i - 1)
           rest == SubSeq(line, i + 2, Len(line))
       IN IF FullMatchLang(Strip(prefix)) THEN Strip(rest) ELSE line
  ELSE line

\* length of the match of ^\W*[a-z]{2,3}\|\| at the start of line, 0 if none
PrefixMatchLen(line) ==
  LET word == {i \in 1..Len(line) : IsWordChar(line[i])}
      k == IF word = {} THEN Len(line)
           ELSE (CHOOSE i \in word : \A j \in word : i <= j) - 1
      letters(n) == /\ k + n <= Len(line)
                    /\ \A i \in (k + 1)..(k + n) : IsAlpha(line[i])
  IN IF letters(3) /\ MatchAt(line, Bar2, k + 4) THEN k + 5
     ELSE IF letters(2) /\ MatchAt(line, Bar2, k + 3) THEN k + 4
     ELSE 0

\* re.sub(r"(?i)^\W*[a-z]{2,3}\|\|", "", line).strip()
SubPrefix(line) ==
  Strip(SubSeq(line, PrefixMatchLen(line) + 1, Len(line)))

\* the line as it stands after both prefix rules
CleanLine(l) == SubPrefix(SplitPrefix(Strip(l)))

IsBoilerplate(lower) ==
  \/ Contains(lower, TagContributors)
  \/ Contains(lower, TagTranslations)
  \/ Contains(lower, TagParoles)

\* the for loop over lines, with its continue and its break
RECURSIVE CleanLoop(_, _)
CleanLoop(lines, out) ==
  IF lines = <<>> THEN out
  ELSE LET line == CleanLine(Head(lines))
           lower == Lower(line)
       IN IF IsBoilerplate(lower) THEN CleanLoop(Tail(lines), out)
          ELSE IF StartsWith(lower, MarkerAlsoLike) THEN out
          ELSE CleanLoop(Tail(lines), Append(out, line))

\* while out and not out[0].strip(): out.pop(0)
RECURSIVE DropLeadingBlank(_)
DropLeadingBlank(out) ==
  IF out # <<>> /\ Strip(out[1]) = <<>> THEN DropLeadingBlank(Tail(out)) ELSE out

\* while out and not out[-1].strip(): out.pop()
RECURSIVE DropTrailingBlank(_)
DropTrailingBlank(out) ==
  IF out # <<>> /\ Strip(out[Len(out)]) = <<>>
  THEN DropTrailingBlank(SubSeq(out, 1, Len(out) - 1))
  ELSE out

clean_lyrics(raw) ==
  JoinLines(DropTrailingBlank(DropLeadingBlank(CleanLoop(SplitLines(raw), <<>>))))

(***************************************************************************)
(* Bounds of the model.                                                    *)
(***************************************************************************)
\* files in the scanned tree
MaxFiles == 3

\* worker threads
MaxThreads == 2

\* the default of the threads parameter
DefaultThreads == 4

\* pieces concatenated into a raw text given to clean_lyrics
MaxPieces == 4

(***************************************************************************)
(* Python values.  None is the string "None"; a title or artist is a       *)
(* string; a lyrics value is a record, so that None, a str and a value     *)
(* that is no str stay apart.                                              *)
(***************************************************************************)
NONE == "None"

\* not x, for x a str or None
Falsy(x) == x = NONE \/ x = ""

PyNone == [kind |-> "none", text |-> <<>>]

PyStr(t) == [kind |-> "str", text |-> t]

\* a JSON value that is neither null nor a string, and truthy
PyOther == [kind |-> "other", text |-> <<>>]

\* not v, for v a lyrics value
FalsyValue(v) == v.kind = "none" \/ (v.kind = "str" /\ v.text = <<>>)

(***************************************************************************)
(* The state.                                                              *)
(***************************************************************************)
VARIABLES
  root,        \* the path given to process_path: [isdir, name, target]
  files,       \* the file system: a sequence of [name, depth, content]
  files0,      \* the file system as it was when process_path was called
  overwrite,   \* the overwrite flag
  use_genius,  \* the use_genius flag
  genius,      \* TRUE when the genius argument is a client, FALSE when None
  threads,     \* max_workers
  ppc,         \* where process_path is
  mp3s,        \* the paths collected by process_path (indices into files)
  nsub,        \* how many jobs have been submitted
  collected,   \* the futures as_completed has yielded
  job,         \* per submitted path, the state of its add_lyrics_to_file call
  errlog,      \* what logger.error / logger.exception wrote in process_path
  cpc,         \* where the clean_lyrics driver is
  craw,        \* its input
  conce,       \* clean_lyrics(craw)
  ctwice       \* clean_lyrics(clean_lyrics(craw))

vars == <<root, files, files0, overwrite, use_genius, genius, threads, ppc, mp3s, nsub,
          collected, job, errlog, cpc, craw, conce, ctwice>>

pathVars == <<root, files, files0, overwrite, use_genius, genius, threads, ppc, mp3s,
              nsub, collected, job, errlog>>

cleanVars == <<cpc, craw, conce, ctwice>>

(***************************************************************************)
(* Tags.  A tag container holds at most one frame per text field and a set *)
(* of USLT frames, at most one per (desc, lang).                           *)
(***************************************************************************)
NoTags == [TIT2 |-> NONE, TALB |-> NONE, TPE1 |-> NONE, TPE2 |-> NONE,
           uslt |-> {}]

\* any(isinstance(f, USLT) for f in tags.values())
HasLyrics(tags) == tags.uslt # {}

\* next((tags.get(f).text[0] for f in (f1, f2) if tags.get(f)), None)
FirstPresent(tags, f1, f2) ==
  IF tags[f1] # NONE THEN tags[f1]
  ELSE IF tags[f2] # NONE THEN tags[f2]
  ELSE NONE

\* USLT(encoding=3, lang="eng", desc="", text=cleaned)
NewFrame(cleaned) == [lang |-> "eng", desc |-> "", text |-> cleaned]

\* tags.add(frame): the frame takes the place of the one with its key
AddFrame(uslt, frame) ==
  {f \in uslt : ~(f.lang = frame.lang /\ f.desc = frame.desc)} \cup {frame}

\* a variants list with the alt_title variant ahead of the alt_artist one
Variants_Swapped(title, artist, alt_title, alt_artist) ==
  <<<<title, artist>>>>
  \o (IF ~Falsy(alt_title) THEN <<<<alt_title, artist>>>> ELSE <<>>)
  \o (IF ~Falsy(alt_artist) THEN <<<<title, alt_artist>>>> ELSE <<>>)
  \o (IF ~Falsy(alt_title) /\ ~Falsy(alt_artist)
      THEN <<<<alt_title, alt_artist>>>> ELSE <<>>)

\* the variants list of get_raw_lyrics
Variants(title, artist, alt_title, alt_artist) ==
  <<<<title, artist>>>>
  \o (IF ~Falsy(alt_artist) THEN <<<<title, alt_artist>>>> ELSE <<>>)
  \o (IF ~Falsy(alt_title) THEN <<<<alt_title, artist>>>> ELSE <<>>)
  \o (IF ~Falsy(alt_title) /\ ~Falsy(alt_artist)
      THEN <<<<alt_title, alt_artist>>>> ELSE <<>>)

\* a test of the flag that forgets the client may be None
PrimaryUsable_FlagOnly == use_genius

\* if use_genius and genius
PrimaryUsable == use_genius /\ genius

(***************************************************************************)
(* What the providers may answer.                                          *)
(***************************************************************************)
RawPrefixed == <<"e","n","|","|","H","i","\n">>

RawBoilerplate == <<"1"," ","C","o","n","t","r","i","b","u","t","o","r","s">>

RawTexts == {RawPrefixed, RawBoilerplate}

\* genius.search_song: an exception, None, a song
GeniusResponses ==
  {[kind |-> "error", lyrics |-> <<>>], [kind |-> "none", lyrics |-> <<>>]}
  \cup {[kind |-> "song", lyrics |-> t] : t \in RawTexts \cup {<<>>}}

\* song and song.lyrics
GeniusHit(resp) == resp.kind = "song" /\ resp.lyrics # <<>>

\* what a Genius answer is, for the log
GeniusKind(resp) ==
  IF resp.kind = "error" THEN "error"
  ELSE IF resp.kind = "song" /\ resp.lyrics # <<>> THEN "lyrics"
  ELSE "empty"

\* fetch_lyrics_ovh: None (no 200, or an exception) or the "lyrics" member
OvhResponses ==
  {PyNone, PyOther} \cup {PyStr(t) : t \in RawTexts \cup {<<>>}}

\* what a lyrics.ovh answer is, for the log
OvhKind(resp) ==
  IF resp.kind = "none" \/ (resp.kind = "str" /\ resp.text = <<>>) THEN "empty"
  ELSE "lyrics"

(***************************************************************************)
(* add_lyrics_to_file, one call per job.                                   *)
(***************************************************************************)
NewJob == [pc |-> "idle", tags |-> NoTags, title |-> NONE, artist |-> NONE,
           alt_title |-> NONE, alt_artist |-> NONE, variants |-> <<>>,
           vi |-> 0, raw |-> PyNone, source |-> NONE, cleaned |-> <<>>,
           log |-> <<>>, saveReached |-> FALSE, result |-> "none",
           reason |-> "none"]

Jobs == 1..Len(job)

\* the call has returned or raised
Terminal(j) == job[j].pc = "done"

\* the job holds a worker
Running(j) == job[j].pc \notin {"idle", "queued", "done"}

\* return False
ReturnFalse(r, why) == [r EXCEPT !.pc = "done", !.result = "false", !.reason = why]

\* the file a job works on, 0 when the path names no file
PathOf(j) == mp3s[j]

\* a worker is free and j is the oldest queued job
MayStart(j) ==
  /\ job[j].pc = "queued"
  /\ Cardinality({k \in Jobs : Running(k)}) < threads
  /\ \A k \in Jobs : job[k].pc = "queued" => j <= k

Start(j) ==
  /\ MayStart(j)
  /\ job' = [job EXCEPT ![j].pc = "open"]
  /\ UNCHANGED <<root, files, files0, overwrite, use_genius, genius, threads, ppc, mp3s,
                 nsub, collected, errlog, cleanVars>>

\* MP3(path, ID3=ID3) raises
OpenFails(p) == p = 0 \/ ~files[p].content.ok

\* audio.tags after MP3(path) and add_tags()
LoadedTags(p) ==
  IF files[p].content.hasTags THEN files[p].content.tags ELSE NoTags

Open(j) ==
  /\ job[j].pc = "open"
  /\ job' = [job EXCEPT ![j] =
       IF OpenFails(PathOf(j)) THEN ReturnFalse(@, "open")
       ELSE [@ EXCEPT !.pc = "guard", !.tags = LoadedTags(PathOf(j))]]
  /\ UNCHANGED <<root, files, files0, overwrite, use_genius, genius, threads, ppc, mp3s,
                 nsub, collected, errlog, cleanVars>>

\* a guard that never skips
SkipExisting_Never(tags) == FALSE

\* if not overwrite and any(isinstance(f, USLT) for f in tags.values())
SkipExisting(tags) == ~overwrite /\ HasLyrics(tags)

Guard(j) ==
  /\ job[j].pc = "guard"
  /\ job' = [job EXCEPT ![j] =
       IF SkipExisting(@.tags) THEN ReturnFalse(@, "tagged")
       ELSE [@ EXCEPT !.pc = "meta"]]
  /\ UNCHANGED <<root, files, files0, overwrite, use_genius, genius, threads, ppc, mp3s,
                 nsub, collected, errlog, cleanVars>>

\* a check that needs both to be missing
MissingMetadata_Both(title, artist) == Falsy(title) /\ Falsy(artist)

\* if not title or not artist
MissingMetadata(title, artist) == Falsy(title) \/ Falsy(artist)

Meta(j) ==
  /\ job[j].pc = "meta"
  /\ LET tags == job[j].tags
         title == FirstPresent(tags, "TIT2", "TALB")
         artist == FirstPresent(tags, "TPE1", "TPE2")
         alt_title == tags.TALB
         alt_artist == tags.TPE2
     IN job' = [job EXCEPT ![j] =
          IF MissingMetadata(title, artist)
          THEN ReturnFalse([@ EXCEPT !.title = title, !.artist = artist], "meta")
          ELSE [@ EXCEPT !.title = title, !.artist = artist,
                         !.alt_title = alt_title, !.alt_artist = alt_artist,
                         !.variants = Variants(title, artist, alt_title, alt_artist),
                         !.vi = 1,
                         !.pc = IF PrimaryUsable THEN "genius" ELSE "ovh"]]
  /\ UNCHANGED <<root, files, files0, overwrite, use_genius, genius, threads, ppc, mp3s,
                 nsub, collected, errlog, cleanVars>>

\* a query as sent, and its answer: kind tells an exception from an answer
\* without lyrics and from lyrics, hit whether the code took it for lyrics
LogEntry(provider, v, kind, hit) ==
  [provider |-> provider, t |-> v[1], a |-> v[2], kind |-> kind, hit |-> hit]

\* a loop that leaves Genius at the first query that gave nothing
GeniusMiss_GiveUp(r) == [r EXCEPT !.vi = 1, !.pc = "ovh"]

\* the step after a Genius query that gave nothing: the next variant, or the
\* fallback loop after the last one
GeniusMiss(r) ==
  IF r.vi < Len(r.variants) THEN [r EXCEPT !.vi = r.vi + 1]
  ELSE [r EXCEPT !.vi = 1, !.pc = "ovh"]

\* one turn of the loop over variants against Genius
QueryGenius(j, resp) ==
  /\ job[j].pc = "genius"
  /\ LET r == job[j]
         v == r.variants[r.vi]
         logged == [r EXCEPT !.log = Append(@, LogEntry("genius", v, GeniusKind(resp), GeniusHit(resp)))]
     IN job' = [job EXCEPT ![j] =
          IF GeniusHit(resp)
          THEN [logged EXCEPT !.raw = PyStr(resp.lyrics), !.source = "genius",
                              !.pc = "clean"]
          ELSE GeniusMiss(logged)]
  /\ UNCHANGED <<root, files, files0, overwrite, use_genius, genius, threads, ppc, mp3s,
                 nsub, collected, errlog, cleanVars>>

\* one turn of the loop over variants against lyrics.ovh; after the last
\* turn get_raw_lyrics returns (None, None) and the caller returns False
QueryOvh(j, resp) ==
  /\ job[j].pc = "ovh"
  /\ LET r == job[j]
         v == r.variants[r.vi]
         logged == [r EXCEPT !.log = Append(@, LogEntry("ovh", v, OvhKind(resp), ~FalsyValue(resp)))]
     IN job' = [job EXCEPT ![j] =
          IF ~FalsyValue(resp)
          THEN [logged EXCEPT !.raw = resp, !.source = "ovh", !.pc = "clean"]
          ELSE IF r.vi < Len(r.variants) THEN [logged EXCEPT !.vi = r.vi + 1]
          ELSE ReturnFalse(logged, "nolyrics")]
  /\ UNCHANGED <<root, files, files0, overwrite, use_genius, genius, threads, ppc, mp3s,
                 nsub, collected, errlog, cleanVars>>

\* a missing check of the cleaned text
EmptyAfterCleaning_Unchecked(cleaned) == FALSE

\* if not cleaned
EmptyAfterCleaning(cleaned) == cleaned = <<>>

\* cleaned = clean_lyrics(raw); raw.splitlines() raises on a value that is
\* no str; then tags.add(USLT(...))
Clean(j) ==
  /\ job[j].pc = "clean"
  /\ LET r == job[j]
         cleaned == clean_lyrics(r.raw.text)
     IN job' = [job EXCEPT ![j] =
          IF r.raw.kind # "str"
          THEN [r EXCEPT !.pc = "done", !.result = "raised", !.reason = "clean"]
          ELSE IF EmptyAfterCleaning(cleaned) THEN ReturnFalse(r, "empty")
          ELSE [r EXCEPT !.cleaned = cleaned, !.pc = "save",
                         !.tags.uslt = AddFrame(@, NewFrame(cleaned))]]
  /\ UNCHANGED <<root, files, files0, overwrite, use_genius, genius, threads, ppc, mp3s,
                 nsub, collected, errlog, cleanVars>>

\* audio.save() writes the container back, or raises; a save that raises is
\* taken to leave the file as it was
Save(j, ok) ==
  /\ job[j].pc = "save"
  /\ job' = [job EXCEPT ![j] =
       IF ok THEN [@ EXCEPT !.pc = "done", !.result = "true", !.reason = "saved",
                            !.saveReached = TRUE]
       ELSE [ReturnFalse(@, "save") EXCEPT !.saveReached = TRUE]]
  /\ files' = IF ok
              THEN [files EXCEPT ![PathOf(j)].content.tags = job[j].tags,
                                 ![PathOf(j)].content.hasTags = TRUE]
              ELSE files
  /\ UNCHANGED <<root, files0, overwrite, use_genius, genius, threads, ppc, mp3s,
                 nsub, collected, errlog, cleanVars>>

(***************************************************************************)
(* process_path                                                            *)
(***************************************************************************)
DotMp3 == <<".","m","p","3">>

\* f.lower().endswith(".mp3")
IsMp3Name(name) == EndsWith(Lower(name), DotMp3)

\* the files of one directory level whose name matches, in listing order
RECURSIVE LevelMatches(_, _)
LevelMatches(i, d) ==
  IF i > Len(files) THEN <<>>
  ELSE (IF files[i].depth = d /\ IsMp3Name(files[i].name) THEN <<i>> ELSE <<>>)
       \o LevelMatches(i + 1, d)

\* the directory levels of the modelled tree: the root and its subdirectory
Depths == {0, 1}

\* os.walk(root), top down: a directory's files, then its subdirectories'
RECURSIVE Walk(_)
Walk(d) == IF d \notin Depths THEN <<>> ELSE LevelMatches(1, d) \o Walk(d + 1)

\* root is accepted as a single file
AcceptsFile(r) == IsMp3Name(r.name)

Scan ==
  /\ ppc = "start"
  /\ IF root.isdir
     THEN /\ mp3s' = Walk(0)
          /\ ppc' = IF Walk(0) = <<>> THEN "collect" ELSE "submit"
          /\ errlog' = errlog
     ELSE IF AcceptsFile(root)
     THEN /\ mp3s' = <<root.target>>
          /\ ppc' = "submit"
          /\ errlog' = errlog
     ELSE /\ mp3s' = <<>>
          /\ ppc' = "invalid"
          /\ errlog' = Append(errlog, "Invalid path.")
  /\ job' = [j \in 1..Len(mp3s') |-> NewJob]
  /\ UNCHANGED <<root, files, files0, overwrite, use_genius, genius, threads, nsub,
                 collected, cleanVars>>

\* ex.submit(add_lyrics_to_file, f, ...) for the next f in mp3s
Submit ==
  /\ ppc = "submit"
  /\ nsub < Len(mp3s)
  /\ nsub' = nsub + 1
  /\ job' = [job EXCEPT ![nsub + 1].pc = "queued"]
  /\ ppc' = IF nsub + 1 = Len(mp3s) THEN "collect" ELSE "submit"
  /\ UNCHANGED <<root, files, files0, overwrite, use_genius, genius, threads, mp3s,
                 collected, errlog, cleanVars>>

\* as_completed yields a finished future; fut.result() re-raises what the
\* job raised, and the bare except logs it
Collect(j) ==
  /\ ppc = "collect"
  /\ Terminal(j)
  /\ j \notin collected
  /\ collected' = collected \cup {j}
  /\ errlog' = IF job[j].result = "raised" THEN Append(errlog, "Thread error.")
               ELSE errlog
  /\ UNCHANGED <<root, files, files0, overwrite, use_genius, genius, threads, ppc, mp3s,
                 nsub, job, cleanVars>>

\* a return at the first finished future, with no wait for the others
MayReturn_FirstDone == collected # {}

\* the loop over as_completed has ended and the executor has shut down
MayReturn == collected = Jobs /\ \A j \in Jobs : Terminal(j)

Return ==
  /\ ppc = "collect"
  /\ MayReturn
  /\ ppc' = "returned"
  /\ UNCHANGED <<root, files, files0, overwrite, use_genius, genius, threads, mp3s,
                 nsub, collected, job, errlog, cleanVars>>

Next ==
  \/ Scan
  \/ Submit
  \/ \E j \in Jobs : Start(j)
  \/ \E j \in Jobs : Open(j)
  \/ \E j \in Jobs : Guard(j)
  \/ \E j \in Jobs : Meta(j)
  \/ \E j \in Jobs : \E resp \in GeniusResponses : QueryGenius(j, resp)
  \/ \E j \in Jobs : \E resp \in OvhResponses : QueryOvh(j, resp)
  \/ \E j \in Jobs : Clean(j)
  \/ \E j \in Jobs : \E ok \in BOOLEAN : Save(j, ok)
  \/ \E j \in Jobs : Collect(j)
  \/ Return

(***************************************************************************)
(* The driver of clean_lyrics: the function applied once and twice.        *)
(***************************************************************************)
CleanOnce ==
  /\ cpc = "raw"
  /\ conce' = clean_lyrics(craw)
  /\ cpc' = "once"
  /\ UNCHANGED <<craw, ctwice, pathVars>>

CleanTwice ==
  /\ cpc = "once"
  /\ ctwice' = clean_lyrics(conce)
  /\ cpc' = "twice"
  /\ UNCHANGED <<craw, conce, pathVars>>

NextClean == CleanOnce \/ CleanTwice

(***************************************************************************)
(* Initial states.                                                         *)
(***************************************************************************)
OldText == <<"o","l","d">>

OldEng == [lang |-> "eng", desc |-> "", text |-> OldText]

OldFra == [lang |-> "fra", desc |-> "", text |-> OldText]

OldLive == [lang |-> "eng", desc |-> "live", text |-> OldText]

UsltOptions == {{}, {OldEng}, {OldFra}, {OldLive}, {OldEng, OldFra}}

FieldValues(v) == {NONE, "", v}

RichTags ==
  [TIT2 : FieldValues("T"), TALB : FieldValues("T2"), TPE1 : FieldValues("A"),
   TPE2 : FieldValues("A2"), uslt : UsltOptions]

Corrupt == [ok |-> FALSE, hasTags |-> FALSE, tags |-> NoTags]

Untagged == [ok |-> TRUE, hasTags |-> FALSE, tags |-> NoTags]

Tagged(t) == [ok |-> TRUE, hasTags |-> TRUE, tags |-> t]

RichContents == {Corrupt, Untagged} \cup {Tagged(t) : t \in RichTags}

Complete == Tagged([NoTags EXCEPT !.TIT2 = "T", !.TPE1 = "A"])

HasLyricsAlready == Tagged([NoTags EXCEPT !.TIT2 = "T", !.TPE1 = "A", !.uslt = {OldEng}])

NoArtist == Tagged([NoTags EXCEPT !.TIT2 = "T"])

NameLower == <<"a",".","m","p","3">>

NameUpper == <<"b",".","M","P","3">>

NameText == <<"c",".","t","x","t">>

NameNoDot == <<"d","m","p","3">>

NameDir == <<"m","u","s","i","c">>

cleanOff == cpc = "off" /\ craw = <<>> /\ conce = <<>> /\ ctwice = <<>>

pathStart ==
  /\ files0 = files
  /\ ppc = "start"
  /\ mp3s = <<>>
  /\ nsub = 0
  /\ collected = {}
  /\ job = <<>>
  /\ errlog = <<>>

\* one path: an MP3 file with any tags, a name of another kind, a path that
\* names no file
InitJob ==
  /\ \/ /\ root = [isdir |-> FALSE, name |-> NameLower, target |-> 1]
        /\ \E c \in RichContents :
             files = <<[name |-> NameLower, depth |-> 0, content |-> c]>>
     \/ /\ \E n \in {NameUpper, NameText, NameNoDot} :
             /\ root = [isdir |-> FALSE, name |-> n, target |-> 1]
             /\ files = <<[name |-> n, depth |-> 0, content |-> Complete]>>
     \/ /\ \E n \in {NameLower, NameText} :
             root = [isdir |-> FALSE, name |-> n, target |-> 0]
        /\ files = <<>>
  /\ overwrite \in BOOLEAN
  /\ use_genius \in BOOLEAN
  /\ genius \in BOOLEAN
  /\ threads \in {1, DefaultThreads}
  /\ pathStart
  /\ cleanOff

\* the directory entries a tree is made of, in listing order: a file of the
\* subdirectory may be listed before a file of the root
Entries ==
  <<[name |-> NameUpper, depth |-> 1, content |-> Complete],
    [name |-> NameLower, depth |-> 0, content |-> Complete],
    [name |-> <<"e",".","m","p","3">>, depth |-> 0, content |-> Corrupt],
    [name |-> <<"f",".","M","p","3">>, depth |-> 1, content |-> HasLyricsAlready],
    [name |-> <<"g",".","m","p","3">>, depth |-> 0, content |-> NoArtist],
    [name |-> NameText, depth |-> 0, content |-> Complete]>>

\* the entries picked by a set of positions, in listing order
RECURSIVE Listing(_, _)
Listing(picked, i) ==
  IF i > Len(Entries) THEN <<>>
  ELSE (IF i \in picked THEN <<Entries[i]>> ELSE <<>>) \o Listing(picked, i + 1)

\* the trees of up to n files
Trees(n) ==
  {Listing(picked, 1) : picked \in {x \in SUBSET (1..Len(Entries)) : Cardinality(x) <= n}}

\* a directory tree, scanned without the overwrite flag
InitPath ==
  /\ root = [isdir |-> TRUE, name |-> NameDir, target |-> 0]
  /\ files \in Trees(MaxFiles)
  /\ overwrite = FALSE
  /\ \E g \in BOOLEAN : use_genius = g /\ genius = g
  /\ threads \in 1..MaxThreads
  /\ pathStart
  /\ cleanOff

PieceLang == <<"e","n","|","|">>

PieceText == <<"H","i">>

PieceTranslations == <<"T","r","a","n","s","l","a","t","i","o","n","s">>

PieceAlsoLike == <<"Y","o","u"," ","M","i","g","h","t"," ","A","l","s","o",
                   " ","L","i","k","e">>

Pieces == {PieceLang, PieceText, PieceTranslations, PieceAlsoLike,
           <<"-">>, <<" ">>, <<"\n">>}

\* the texts made of up to n pieces
RECURSIVE Texts(_)
Texts(n) ==
  IF n = 0 THEN {<<>>}
  ELSE LET shorter == Texts(n - 1)
       IN shorter \cup {t \o p : <<t, p>> \in shorter \X Pieces}

InitClean ==
  /\ cpc = "raw"
  /\ craw \in Texts(MaxPieces)
  /\ conce = <<>>
  /\ ctwice = <<>>
  /\ root = [isdir |-> FALSE, name |-> NameText, target |-> 0]
  /\ files = <<>>
  /\ files0 = <<>>
  /\ overwrite = FALSE
  /\ use_genius = FALSE
  /\ genius = FALSE
  /\ threads = 1
  /\ ppc = "off"
  /\ mp3s = <<>>
  /\ nsub = 0
  /\ collected = {}
  /\ job = <<>>
  /\ errlog = <<>>

(***************************************************************************)
(* Specifications.                                                         *)
(***************************************************************************)
\* process_path on one path
Spec == InitJob /\ [][Next]_vars

\* process_path on a directory
SpecPath == InitPath /\ [][Next]_vars

\* clean_lyrics on its own
SpecClean == InitClean /\ [][NextClean]_vars

(***************************************************************************)
(* What the properties speak of.                                           *)
(***************************************************************************)
\* job j's path names a file that opens
Opens(j) == PathOf(j) # 0 /\ files0[PathOf(j)].content.ok

\* the tags of job j's file when process_path was called
StartTags(j) ==
  LET c == files0[PathOf(j)].content
  IN IF c.hasTags THEN c.tags ELSE NoTags

\* the file of job j held a USLT frame when process_path was called
HadLyrics(j) == Opens(j) /\ StartTags(j).uslt # {}

Present(x) == x # NONE /\ x # ""

\* title and artist by the preference lists (TIT2, TALB) and (TPE1, TPE2)
TitleOf(tags) == IF tags.TIT2 # NONE THEN tags.TIT2 ELSE tags.TALB

ArtistOf(tags) == IF tags.TPE1 # NONE THEN tags.TPE1 ELSE tags.TPE2

\* (T,A), (T,A2), (T2,A), (T2,A2) without the variants of an absent alt field
ExpectedOrder(T, A, T2, A2) ==
  LET all == << <<T, A>>, <<T, A2>>, <<T2, A>>, <<T2, A2>> >>
      kept == {1} \cup (IF Present(A2) THEN {2} ELSE {})
                  \cup (IF Present(T2) THEN {3} ELSE {})
                  \cup (IF Present(T2) /\ Present(A2) THEN {4} ELSE {})
      pick(i) == IF i \in kept THEN <<all[i]>> ELSE <<>>
  IN pick(1) \o pick(2) \o pick(3) \o pick(4)

ExpectedFor(j) ==
  LET tags == StartTags(j)
  IN ExpectedOrder(TitleOf(tags), ArtistOf(tags), tags.TALB, tags.TPE2)

\* the (title, artist) pairs job j has sent to a provider, in order
Sent(j, provider) ==
  LET es == SelectSeq(job[j].log, LAMBDA e : e.provider = provider)
  IN [i \in 1..Len(es) |-> <<es[i].t, es[i].a>>]

IsPrefix(a, b) == Len(a) <= Len(b) /\ \A i \in 1..Len(a) : a[i] = b[i]

\* job j has gone past the metadata check
PastMetadata(j) ==
  \/ job[j].pc \in {"genius", "ovh", "clean", "save"}
  \/ job[j].pc = "done" /\ job[j].reason \notin {"open", "tagged"}

(***************************************************************************)
(* C1: a file is saved only if it had no lyrics frame or overwrite is set, *)
(* and only if the resolver gave non-empty text whose cleaned form is      *)
(* non-empty; a file with a lyrics frame and overwrite unset is never      *)
(* saved and stays as it was.                                              *)
(***************************************************************************)
C1_SaveOnlyWhenAllowed ==
  \A j \in Jobs :
    /\ job[j].saveReached =>
         /\ Opens(j)
         /\ ~HadLyrics(j) \/ overwrite
         /\ job[j].raw.kind = "str"
         /\ job[j].raw.text # <<>>
         /\ clean_lyrics(job[j].raw.text) # <<>>
    /\ PathOf(j) # 0 /\ ~job[j].saveReached =>
         files[PathOf(j)] = files0[PathOf(j)]
    /\ HadLyrics(j) /\ ~overwrite =>
         ~job[j].saveReached /\ files[PathOf(j)] = files0[PathOf(j)]

C1_Witness ==
  \E j \in Jobs :
    /\ job[j].result = "true"
    /\ HadLyrics(j)
    /\ overwrite
    /\ files[PathOf(j)] # files0[PathOf(j)]

(***************************************************************************)
(* C2: the queries a job sends to one provider are a prefix of (T,A),      *)
(* (T,A2), (T2,A), (T2,A2), in that order, without the variants of an      *)
(* absent alt field; a query answered with lyrics is the last query sent   *)
(* to any provider.                                                        *)
(***************************************************************************)
C2_VariantOrder ==
  \A j \in Jobs :
    job[j].log # <<>> =>
      /\ Opens(j)
      /\ IsPrefix(Sent(j, "genius"), ExpectedFor(j))
      /\ IsPrefix(Sent(j, "ovh"), ExpectedFor(j))
      /\ \A i \in 1..Len(job[j].log) : job[j].log[i].hit => i = Len(job[j].log)
      /\ job[j].log[Len(job[j].log)].hit => job[j].pc \in {"clean", "save", "done"}

C2_Witness ==
  \E j \in Jobs :
    /\ Sent(j, "genius") = << <<"T", "A">>, <<"T", "A2">>, <<"T2", "A">>, <<"T2", "A2">> >>
    /\ Sent(j, "ovh") = << <<"T", "A">>, <<"T", "A2">>, <<"T2", "A">> >>
    /\ job[j].log[7].hit
    /\ Terminal(j)

(***************************************************************************)
(* C3: with the primary provider disabled (use_genius false, or no client) *)
(* no query goes to the primary provider, the fallback is queried in the   *)
(* variant order, and a result carries the fallback provenance.            *)
(***************************************************************************)
C3_FallbackOnly ==
  ~(use_genius /\ genius) =>
    \A j \in Jobs :
      /\ \A i \in 1..Len(job[j].log) : job[j].log[i].provider = "ovh"
      /\ job[j].log # <<>> => IsPrefix(Sent(j, "ovh"), ExpectedFor(j))
      /\ job[j].source # "genius"
      /\ ~FalsyValue(job[j].raw) => job[j].source = "ovh"

C3_Witness ==
  /\ use_genius
  /\ ~genius
  /\ \E j \in Jobs :
       /\ Len(job[j].log) = 4
       /\ job[j].source = "ovh"
       /\ job[j].result = "true"

(***************************************************************************)
(* C4: with the primary provider usable, a primary query that ends in an   *)
(* error or an empty answer leaves the resolution running; the fallback is *)
(* queried only after every primary variant has failed, in the same order; *)
(* "not found" is returned only after every variant has failed on both.    *)
(***************************************************************************)
C4_AllVariantsTried ==
  (use_genius /\ genius) =>
    \A j \in Jobs :
      LET log == job[j].log
          g == Sent(j, "genius")
          o == Sent(j, "ovh")
      IN /\ PastMetadata(j) /\ job[j].reason # "meta" =>
              IsPrefix(g, ExpectedFor(j)) /\ IsPrefix(o, ExpectedFor(j))
         /\ \A i \in 1..Len(log) : \A k \in 1..Len(log) :
              log[i].provider = "genius" /\ log[k].provider = "ovh" => i < k
         /\ o # <<>> =>
              /\ g = ExpectedFor(j)
              /\ \A i \in 1..Len(g) : ~log[i].hit
         /\ log # <<>> /\ log[Len(log)].provider = "genius" /\ ~log[Len(log)].hit =>
              job[j].pc \in {"genius", "ovh"}
         /\ FalsyValue(job[j].raw) /\ Terminal(j) /\ PastMetadata(j)
              /\ job[j].reason # "meta" =>
              /\ job[j].reason = "nolyrics"
              /\ g = ExpectedFor(j)
              /\ o = ExpectedFor(j)
              /\ \A i \in 1..Len(log) : ~log[i].hit

C4_Witness ==
  /\ use_genius
  /\ genius
  /\ \E j \in Jobs :
       /\ job[j].reason = "nolyrics"
       /\ Len(job[j].log) = 8
       /\ job[j].log[1].kind = "error"
       /\ job[j].log[2].kind = "empty"
       /\ job[j].log[3].kind = "error"
       /\ job[j].log[4].kind = "empty"

\* how job j must end, from its own file and the answers it got
OwnOutcome(j) ==
  IF ~Opens(j) THEN {"open"}
  ELSE IF ~overwrite /\ HadLyrics(j) THEN {"tagged"}
  ELSE IF ~Present(TitleOf(StartTags(j))) \/ ~Present(ArtistOf(StartTags(j)))
       THEN {"meta"}
  ELSE IF FalsyValue(job[j].raw) THEN {"nolyrics"}
  ELSE IF job[j].raw.kind # "str" THEN {"clean"}
  ELSE IF clean_lyrics(job[j].raw.text) = <<>> THEN {"empty"}
  ELSE {"saved", "save"}

(***************************************************************************)
(* C5: process_path returns only after every discovered file has been      *)
(* submitted and its job has ended, and how a job ends depends on its own  *)
(* file and its own providers' answers alone, whatever the other jobs did. *)
(***************************************************************************)
C5_Isolation ==
  /\ ppc = "returned" =>
       /\ nsub = Len(mp3s)
       /\ Len(job) = Len(mp3s)
       /\ \A j \in Jobs : Terminal(j)
  /\ \A j \in Jobs :
       /\ Terminal(j) => job[j].reason \in OwnOutcome(j)
       /\ Terminal(j) =>
            (job[j].result = "raised") = (job[j].reason = "clean")
       /\ Terminal(j) =>
            (job[j].result = "true") = (job[j].reason = "saved")
       /\ Cardinality({k \in Jobs : Running(k)}) <= threads

C5_Witness ==
  /\ ppc = "returned"
  /\ \E j \in Jobs : \E k \in Jobs : \E m \in Jobs :
       /\ job[j].reason = "open"
       /\ job[k].result = "raised"
       /\ job[m].result = "true"

(***************************************************************************)
(* C6: with overwrite set, after a successful save a file that held a      *)
(* lyrics frame holds one lyrics frame only: language "eng", empty         *)
(* description, the cleaned text.                                          *)
(***************************************************************************)
C6_SingleFrameAfterOverwrite ==
  \A j \in Jobs :
    job[j].result = "true" /\ overwrite /\ HadLyrics(j) =>
      files[PathOf(j)].content.tags.uslt =
        {[lang |-> "eng", desc |-> "", text |-> clean_lyrics(job[j].raw.text)]}

(***************************************************************************)
(* C7: clean_lyrics(clean_lyrics(raw)) = clean_lyrics(raw).                *)
(***************************************************************************)
C7_Idempotent == cpc = "twice" => ctwice = conce

C9_InvalidPathUnlessExisting ==
  ppc # "start" =>
    IF root.isdir \/ (root.target # 0 /\ IsMp3Name(root.name))
    THEN ppc # "invalid"
    ELSE ppc = "invalid" /\ mp3s = <<>> /\ nsub = 0 /\ errlog = <<"Invalid path.">>

(***************************************************************************)
(* C10: a provider is queried only for a file that opened, passed the      *)
(* overwrite guard and has a title and an artist; a job that ends on an    *)
(* open failure, on existing lyrics or on missing metadata has sent none.  *)
(***************************************************************************)
C10_NoQueryBeforeChecks ==
  \A j \in Jobs :
    /\ job[j].log # <<>> =>
         /\ Opens(j)
         /\ overwrite \/ ~HadLyrics(j)
         /\ Present(TitleOf(StartTags(j)))
         /\ Present(ArtistOf(StartTags(j)))
    /\ job[j].reason \in {"open", "tagged", "meta"} => job[j].log = <<>>

C10_Witness ==
  \E j \in Jobs :
    /\ job[j].log # <<>>
    /\ overwrite
    /\ HadLyrics(j)
    /\ job[j].pc = "ovh"

====
